---- MODULE Spec2Model ----
(***************************************************************************)
(* The OCaml <-> tree-sitter bridge of jasmin-lsp                          *)
(* (jasmin-lsp/TreeSitter/tree_sitter_stubs.c) as a state machine.         *)
(*                                                                         *)
(* The state is what the stubs read and write: the custom blocks that hold *)
(* a TSParser* or a TSTree*, the six-field blocks that hold a marshalled   *)
(* TSNode, and the part of the library's heap those pointers point into.   *)
(* The library itself (the ts_parser, ts_tree and ts_node calls) is the     *)
(* environment: it is modelled by its documented contract, next to the     *)
(* stub that calls it.                                                     *)
(***************************************************************************)
EXTENDS Integers, Sequences, FiniteSets, Bags, TLC

VARIABLES
  abiOk,        \* does ts_parser_set_language accept tree_sitter_jasmin()? (fixed by the build)
  parsers,      \* parser custom blocks, by handle: [ptr, orig, finalized]
  libParsers,   \* the library's TSParser objects, by address: [live, language]
  trees,        \* tree custom blocks, by handle: [ptr, orig, finalized]
  libTrees,     \* the library's TSTree objects, by address: [live, src]
  deleteCalls,  \* bag of the non-NULL arguments ts_parser_delete / ts_tree_delete were called with
  nodes,        \* the marshalled nodes the OCaml program still holds
  ubEvents,     \* library calls made outside the library's contract
  crashed,      \* the process died in such a call
  ret           \* the last stub call and what it returned to OCaml

vars == <<abiOk, parsers, libParsers, trees, libTrees, deleteCalls, nodes, ubEvents, crashed, ret>>

(***************************************************************************)
(* Bounds of the model.                                                    *)
(***************************************************************************)
MaxParsers == 2
MaxTrees == 2
MaxNavLen == 2
MaxNodes == 1

\* a source is a sequence of tokens: "x" an identifier, ";" punctuation
Alphabet == {"x", ";"}
SourcesUpTo(len) == UNION {[1..n -> Alphabet] : n \in 0..len}
NavSources == SourcesUpTo(MaxNavLen)
\* the sources the parse stubs are called with: the empty one, one token, two tokens
Sources == {<<>>, <<"x">>, <<"x", ";">>}

(***************************************************************************)
(* Machine words.  TLC's integers are 32-bit signed, so a uint32_t is a    *)
(* pair of 16-bit limbs <<hi, lo>> and a 64-bit word four limbs, most      *)
(* significant first.  An int32_t fits a TLC integer; an intnat is four    *)
(* limbs whose first is signed.                                            *)
(***************************************************************************)
LimbBase == 2^16
SignBit == 2^15

Word32(k) == <<0, k>>
Word64(k) == <<0, 0, 0, k>>
NullWord == Word64(0)

\* uint32_t -> int32_t, the conversion at the call caml_copy_int32(node.context[i])
ToInt32(w) ==
  IF w[1] >= SignBit THEN (w[1] - LimbBase) * LimbBase + w[2]
                     ELSE w[1] * LimbBase + w[2]

\* ToUint32 that takes a negative int32 for no value at all and reads it as 0
ToUint32_Clamp(i) ==
  IF i < 0 THEN <<0, 0>> ELSE <<i \div LimbBase, i % LimbBase>>

\* (uint32_t)Int32_val(...): int32_t -> uint32_t, the value modulo 2^32
ToUint32(i) ==
  LET lo == i % LimbBase
      hi == ((i - lo) \div LimbBase) % LimbBase
  IN  <<hi, lo>>

\* uint32_t + uint32_t and uint32_t - uint32_t, modulo 2^32
Add32(a, b) ==
  LET lo == a[2] + b[2]
  IN  <<(a[1] + b[1] + lo \div LimbBase) % LimbBase, lo % LimbBase>>

Sub32(a, b) ==
  LET lo == a[2] - b[2]
  IN  <<(a[1] - b[1] + lo \div LimbBase) % LimbBase, lo % LimbBase>>

\* (intnat)pointer: the 64-bit word read as a signed native integer
ToIntnat(w) ==
  <<IF w[1] >= SignBit THEN w[1] - LimbBase ELSE w[1], w[2], w[3], w[4]>>

\* (const void *)Nativeint_val(...): the native integer read as an address
ToPointer(n) ==
  <<n[1] % LimbBase, n[2], n[3], n[4]>>

(***************************************************************************)
(* Option values.                                                          *)
(***************************************************************************)
Val_none == [some |-> FALSE, v |-> 0]
Val_some(v) == [some |-> TRUE, v |-> v]

(***************************************************************************)
(* Pointers held in custom blocks.                                         *)
(***************************************************************************)
NULL == [kind |-> "NULL", n |-> 0]
ParserPtr(a) == [kind |-> "TSParser", n |-> a]
TreePtr(a) == [kind |-> "TSTree", n |-> a]

\* Data_custom_val(v): the address of the block's own data area, never NULL
Data_custom_val(kind, h) == [kind |-> kind, n |-> h]

Parser_val(h) == parsers[h].ptr
Tree_val(h) == trees[h].ptr

ParserHandles == {h \in 1..Len(parsers) : ~parsers[h].finalized}
TreeHandles == {h \in 1..Len(trees) : ~trees[h].finalized}

\* a block holds the pointer (ptr); orig keeps the pointer it was allocated with,
\* for the record only: no stub reads it
alloc_parser(parser) == Append(parsers, [ptr |-> parser, orig |-> parser, finalized |-> FALSE])
alloc_tree(tree) == Append(trees, [ptr |-> tree, orig |-> tree, finalized |-> FALSE])

(***************************************************************************)
(* Marshalled nodes: a block of six fields, four boxed int32 and two boxed *)
(* nativeint.                                                              *)
(***************************************************************************)
alloc_node(node) ==
  <<ToInt32(node.context[1]), ToInt32(node.context[2]),
    ToInt32(node.context[3]), ToInt32(node.context[4]),
    ToIntnat(node.id), ToIntnat(node.tree)>>

node_val(v) ==
  [context |-> <<ToUint32(v[1]), ToUint32(v[2]), ToUint32(v[3]), ToUint32(v[4])>>,
   id |-> ToPointer(v[5]),
   tree |-> ToPointer(v[6])]

NoNode == <<>>

(***************************************************************************)
(* The library, as the stubs see it.                                       *)
(***************************************************************************)
\* ts_parser_new(): a fresh parser with no language
ts_parser_new == Append(libParsers, [live |-> TRUE, language |-> FALSE])

\* ts_parser_set_language: FALSE, and no language, when the ABI is not accepted
ts_parser_set_language(a) == [libParsers EXCEPT ![a].language = abiOk]

\* ts_parser_parse_string: NULL when the parser has no language, else a new tree
ParseYieldsTree(a) == libParsers[a].language

ts_tree_new(src) == Append(libTrees, [live |-> TRUE, src |-> src])

\* ts_tree_delete / ts_parser_delete of a live object frees it
FreeTree(a) == [libTrees EXCEPT ![a] = [live |-> FALSE, src |-> <<>>]]
FreeParser(a) == [libParsers EXCEPT ![a] = [live |-> FALSE, language |-> FALSE]]

Called(fn, arg) == SetToBag({[fn |-> fn, arg |-> arg]})

\* the tree the node points into, and the node's place in it
NodeTree(n) == n.tree[4]
NodeIndex(n) == n.id[4] - 1

NullNode ==
  [context |-> <<Word32(0), Word32(0), Word32(0), Word32(0)>>, id |-> NullWord, tree |-> NullWord]

\* the TSNode of node i of the tree at address a: node 0 is the root, which spans
\* the whole source; node i > 0 is the i-th token
MkNode(a, i) ==
  LET start == IF i = 0 THEN 0 ELSE i - 1
  IN  [context |-> <<Word32(start), Word32(0), Word32(start), Word32(0)>>,
       id |-> <<0, 0, a, i + 1>>,
       tree |-> Word64(a)]

ts_tree_root_node(a) == MkNode(a, 0)
ts_node_is_null(n) == n.id = NullWord

\* what a stub call gave back: the stub (op), the handle it was called on (arg),
\* the kind of result (res: unit, none, some, node, failure, crash), the handle
\* (h) or node (node) inside it, the message of a Failure (msg), and two of the
\* call's other arguments: the old tree's handle (old) and the child index (index);
\* for a node stub also the TSNode it read from its argument with node_val
\* (argNode) and the TSNode the library gave it (libNode); for node_text the
\* source string it was called with (source) and the string it returned (text)
Ret(op, arg, res, h, node, msg) ==
  [op |-> op, arg |-> arg, res |-> res, h |-> h, node |-> node, msg |-> msg,
   old |-> 0, index |-> 0, argNode |-> NullNode, libNode |-> NullNode,
   source |-> <<>>, text |-> <<>>]

(***************************************************************************)
(* Init: nothing allocated yet.                                            *)
(***************************************************************************)
Init ==
  /\ abiOk \in BOOLEAN
  /\ parsers = <<>>
  /\ libParsers = <<>>
  /\ trees = <<>>
  /\ libTrees = <<>>
  /\ deleteCalls = EmptyBag
  /\ nodes = {}
  /\ ubEvents = {}
  /\ crashed = FALSE
  /\ ret = Ret("init", 0, "unit", 0, NoNode, "")

(***************************************************************************)
(* Parser stubs.                                                           *)
(***************************************************************************)
caml_ts_parser_new ==
  /\ ~crashed
  /\ Len(parsers) < MaxParsers
  /\ libParsers' = ts_parser_new
  /\ parsers' = alloc_parser(ParserPtr(Len(libParsers) + 1))
  /\ ret' = Ret("parser_new", 0, "some", Len(parsers) + 1, NoNode, "")
  /\ UNCHANGED <<abiOk, trees, libTrees, deleteCalls, nodes, ubEvents, crashed>>

\* ts_parser_delete(Parser_val(v)), which the library ignores for NULL; then the
\* block is cleared
caml_ts_parser_delete ==
  /\ ~crashed
  /\ \E h \in ParserHandles :
       LET parser == Parser_val(h) IN
       /\ IF parser = NULL
            THEN UNCHANGED <<libParsers, deleteCalls>>
            ELSE /\ libParsers' = FreeParser(parser.n)
                 /\ deleteCalls' = deleteCalls (+) Called("ts_parser_delete", parser)
       /\ parsers' = [parsers EXCEPT ![h].ptr = NULL]
       /\ ret' = Ret("parser_delete", h, "unit", 0, NoNode, "")
  /\ UNCHANGED <<abiOk, trees, libTrees, nodes, ubEvents, crashed>>

\* The finalizer passes Data_custom_val(v) itself, not the pointer stored in it,
\* and that address is never NULL: the library is handed the block as if it were
\* a TSParser.  The call is outside the library's contract; the process may die
\* in it or go on.  The TSParser the block names is not released by it.
parser_finalize ==
  /\ ~crashed
  /\ \E h \in ParserHandles : \E dies \in BOOLEAN :
       LET parser == Data_custom_val("parser_block", h) IN
       /\ parser # NULL
       /\ deleteCalls' = deleteCalls (+) Called("ts_parser_delete", parser)
       /\ ubEvents' = ubEvents \cup {"ts_parser_delete(custom block)"}
       /\ crashed' = dies
       /\ parsers' = [parsers EXCEPT ![h].finalized = TRUE]
       /\ ret' = Ret("parser_finalize", h, IF dies THEN "crash" ELSE "unit", 0, NoNode, "")
  /\ UNCHANGED <<abiOk, libParsers, trees, libTrees, nodes>>

\* The result of ts_parser_set_language is printed and dropped: unit either way.
\* On a deleted parser the library is called with NULL.
caml_ts_parser_set_language ==
  /\ ~crashed
  /\ \E h \in ParserHandles :
       LET parser == Parser_val(h) IN
       IF parser = NULL
         THEN /\ ubEvents' = ubEvents \cup {"ts_parser_set_language(NULL)"}
              /\ crashed' = TRUE
              /\ ret' = Ret("parser_set_language", h, "crash", 0, NoNode, "")
              /\ UNCHANGED libParsers
         ELSE /\ libParsers' = ts_parser_set_language(parser.n)
              /\ ret' = Ret("parser_set_language", h, "unit", 0, NoNode, "")
              /\ UNCHANGED <<ubEvents, crashed>>
  /\ UNCHANGED <<abiOk, parsers, trees, libTrees, deleteCalls, nodes>>

\* ParseBody with the test `tree == NULL` left out: a NULL result is wrapped too
ParseBody_NoNullCheck(op, h, old, old_tree, src) ==
  LET parser == Parser_val(h) IN
  IF parser = NULL
    THEN /\ ubEvents' = ubEvents \cup {"ts_parser_parse_string(NULL)"}
         /\ crashed' = TRUE
         /\ ret' = [Ret(op, h, "crash", 0, NoNode, "") EXCEPT !.old = old]
         /\ UNCHANGED <<trees, libTrees>>
    ELSE /\ IF ParseYieldsTree(parser.n)
              THEN /\ libTrees' = ts_tree_new(src)
                   /\ trees' = alloc_tree(TreePtr(Len(libTrees) + 1))
              ELSE /\ trees' = alloc_tree(NULL)
                   /\ UNCHANGED libTrees
         /\ ret' = [Ret(op, h, "some", Len(trees) + 1, NoNode, "") EXCEPT !.old = old]
         /\ UNCHANGED <<ubEvents, crashed>>

\* ParseBody taking the old tree over: it is deleted once the new tree is built
ParseBody_ConsumesOld(op, h, old, old_tree, src) ==
  LET parser == Parser_val(h) IN
  IF parser = NULL
    THEN /\ ubEvents' = ubEvents \cup {"ts_parser_parse_string(NULL)"}
         /\ crashed' = TRUE
         /\ ret' = [Ret(op, h, "crash", 0, NoNode, "") EXCEPT !.old = old]
         /\ UNCHANGED <<trees, libTrees>>
    ELSE IF ~ParseYieldsTree(parser.n)
      THEN /\ ret' = [Ret(op, h, "none", 0, NoNode, "") EXCEPT !.old = old]
           /\ UNCHANGED <<trees, libTrees, ubEvents, crashed>>
      ELSE /\ libTrees' = IF old_tree = NULL
                            THEN ts_tree_new(src)
                            ELSE [ts_tree_new(src) EXCEPT ![old_tree.n] = [live |-> FALSE, src |-> <<>>]]
           /\ trees' = IF old_tree = NULL
                         THEN alloc_tree(TreePtr(Len(libTrees) + 1))
                         ELSE [alloc_tree(TreePtr(Len(libTrees) + 1)) EXCEPT ![old].ptr = NULL]
           /\ ret' = [Ret(op, h, "some", Len(trees) + 1, NoNode, "") EXCEPT !.old = old]
           /\ UNCHANGED <<ubEvents, crashed>>

\* The common body of the two parse stubs: old_tree is NULL or the pointer read
\* from the old tree's block; the library only reads the old tree.
ParseBody(op, h, old, old_tree, src) ==
  LET parser == Parser_val(h) IN
  IF parser = NULL
    THEN /\ ubEvents' = ubEvents \cup {"ts_parser_parse_string(NULL)"}
         /\ crashed' = TRUE
         /\ ret' = [Ret(op, h, "crash", 0, NoNode, "") EXCEPT !.old = old]
         /\ UNCHANGED <<trees, libTrees>>
    ELSE IF ~ParseYieldsTree(parser.n)
      THEN /\ ret' = [Ret(op, h, "none", 0, NoNode, "") EXCEPT !.old = old]
           /\ UNCHANGED <<trees, libTrees, ubEvents, crashed>>
      ELSE /\ libTrees' = ts_tree_new(src)
           /\ trees' = alloc_tree(TreePtr(Len(libTrees) + 1))
           /\ ret' = [Ret(op, h, "some", Len(trees) + 1, NoNode, "") EXCEPT !.old = old]
           /\ UNCHANGED <<ubEvents, crashed>>

caml_ts_parser_parse_string ==
  /\ ~crashed
  /\ Len(trees) < MaxTrees
  /\ \E h \in ParserHandles : \E src \in Sources :
       ParseBody("parser_parse_string", h, 0, NULL, src)
  /\ UNCHANGED <<abiOk, parsers, libParsers, deleteCalls, nodes>>

caml_ts_parser_parse_string_with_tree ==
  /\ ~crashed
  /\ Len(trees) < MaxTrees
  /\ \E h \in ParserHandles : \E src \in Sources :
     \E v_old_tree \in {Val_none} \cup {Val_some(t) : t \in TreeHandles} :
       LET old_tree == IF v_old_tree.some THEN Tree_val(v_old_tree.v) ELSE NULL
           old == IF v_old_tree.some THEN v_old_tree.v ELSE 0
       IN  ParseBody("parser_parse_string_with_tree", h, old, old_tree, src)
  /\ UNCHANGED <<abiOk, parsers, libParsers, deleteCalls, nodes>>

(***************************************************************************)
(* Tree stubs.                                                             *)
(***************************************************************************)
\* caml_ts_tree_root_node with the test `tree == NULL` left out
caml_ts_tree_root_node_NoCheck ==
  /\ ~crashed
  /\ \E h \in TreeHandles :
       LET tree == Tree_val(h) IN
       IF tree = NULL
         THEN /\ ubEvents' = ubEvents \cup {"ts_tree_root_node(NULL)"}
              /\ crashed' = TRUE
              /\ ret' = Ret("tree_root_node", h, "crash", 0, NoNode, "")
         ELSE /\ ret' = Ret("tree_root_node", h, "node", 0, alloc_node(ts_tree_root_node(tree.n)), "")
              /\ UNCHANGED <<ubEvents, crashed>>
  /\ UNCHANGED <<abiOk, parsers, libParsers, trees, libTrees, deleteCalls, nodes>>

caml_ts_tree_root_node ==
  /\ ~crashed
  /\ \E h \in TreeHandles :
       LET tree == Tree_val(h) IN
       IF tree = NULL
         THEN /\ ret' = Ret("tree_root_node", h, "failure", 0, NoNode, "tree_root_node: NULL tree")
         ELSE ret' = Ret("tree_root_node", h, "node", 0, alloc_node(ts_tree_root_node(tree.n)), "")
  /\ UNCHANGED <<abiOk, parsers, libParsers, trees, libTrees, deleteCalls, nodes, ubEvents, crashed>>

\* caml_ts_tree_delete without `Tree_val(v_tree) = NULL`: the block keeps the pointer
caml_ts_tree_delete_NoClear ==
  /\ ~crashed
  /\ \E h \in TreeHandles :
       LET tree == Tree_val(h) IN
       /\ IF tree # NULL
            THEN /\ libTrees' = FreeTree(tree.n)
                 /\ deleteCalls' = deleteCalls (+) Called("ts_tree_delete", tree)
            ELSE UNCHANGED <<libTrees, deleteCalls>>
       /\ ret' = Ret("tree_delete", h, "unit", 0, NoNode, "")
  /\ UNCHANGED <<abiOk, parsers, libParsers, trees, nodes, ubEvents, crashed>>

\* caml_ts_tree_delete that keeps the tree while the program holds a node of it,
\* as if nodes counted as owners
caml_ts_tree_delete_KeptByNodes ==
  /\ ~crashed
  /\ \E h \in TreeHandles :
       LET tree == Tree_val(h) IN
       /\ IF tree # NULL
            THEN /\ IF \E v \in nodes : NodeTree(node_val(v)) = tree.n
                      THEN UNCHANGED <<libTrees, deleteCalls>>
                      ELSE /\ libTrees' = FreeTree(tree.n)
                           /\ deleteCalls' = deleteCalls (+) Called("ts_tree_delete", tree)
                 /\ trees' = [trees EXCEPT ![h].ptr = NULL]
            ELSE UNCHANGED <<libTrees, deleteCalls, trees>>
       /\ ret' = Ret("tree_delete", h, "unit", 0, NoNode, "")
  /\ UNCHANGED <<abiOk, parsers, libParsers, nodes, ubEvents, crashed>>

caml_ts_tree_delete ==
  /\ ~crashed
  /\ \E h \in TreeHandles :
       LET tree == Tree_val(h) IN
       /\ IF tree # NULL
            THEN /\ libTrees' = FreeTree(tree.n)
                 /\ deleteCalls' = deleteCalls (+) Called("ts_tree_delete", tree)
                 /\ trees' = [trees EXCEPT ![h].ptr = NULL]
            ELSE UNCHANGED <<libTrees, deleteCalls, trees>>
       /\ ret' = Ret("tree_delete", h, "unit", 0, NoNode, "")
  /\ UNCHANGED <<abiOk, parsers, libParsers, nodes, ubEvents, crashed>>

\* the finalizer of a tree block: the pointer is cleared before the tree is freed
tree_finalize ==
  /\ ~crashed
  /\ \E h \in TreeHandles :
       LET tree_ptr == Data_custom_val("tree_block", h) IN
       /\ IF tree_ptr # NULL /\ Tree_val(h) # NULL
            THEN LET tree == Tree_val(h) IN
                 /\ trees' = [trees EXCEPT ![h].ptr = NULL, ![h].finalized = TRUE]
                 /\ libTrees' = FreeTree(tree.n)
                 /\ deleteCalls' = deleteCalls (+) Called("ts_tree_delete", tree)
            ELSE /\ trees' = [trees EXCEPT ![h].finalized = TRUE]
                 /\ UNCHANGED <<libTrees, deleteCalls>>
       /\ ret' = Ret("tree_finalize", h, "unit", 0, NoNode, "")
  /\ UNCHANGED <<abiOk, parsers, libParsers, nodes, ubEvents, crashed>>

\* ts_tree_copy(Tree_val(v)) with no check: on a released handle the library is
\* called with NULL.  The process may die there, or the call may come back with
\* NULL, which is then wrapped like any tree.
caml_ts_tree_copy ==
  /\ ~crashed
  /\ Len(trees) < MaxTrees
  /\ \E h \in TreeHandles :
       LET tree == Tree_val(h) IN
       IF tree = NULL
         THEN \E dies \in BOOLEAN :
              /\ ubEvents' = ubEvents \cup {"ts_tree_copy(NULL)"}
              /\ crashed' = dies
              /\ IF dies
                   THEN /\ ret' = Ret("tree_copy", h, "crash", 0, NoNode, "")
                        /\ UNCHANGED trees
                   ELSE /\ trees' = alloc_tree(NULL)
                        /\ ret' = Ret("tree_copy", h, "some", Len(trees) + 1, NoNode, "")
              /\ UNCHANGED libTrees
         ELSE /\ libTrees' = ts_tree_new(libTrees[tree.n].src)
              /\ trees' = alloc_tree(TreePtr(Len(libTrees) + 1))
              /\ ret' = Ret("tree_copy", h, "some", Len(trees) + 1, NoNode, "")
              /\ UNCHANGED <<ubEvents, crashed>>
  /\ UNCHANGED <<abiOk, parsers, libParsers, deleteCalls, nodes>>

(***************************************************************************)
(* The library's node navigation, on the trees of this model: the root     *)
(* (node 0) has one child per token, in source order; a token is a named   *)
(* node when it is an identifier ("x") and an anonymous one when it is     *)
(* punctuation (";"); the root's field "head" is its first child when that *)
(* is an identifier.  Each function takes a TSNode and gives the related   *)
(* TSNode, or the null node.                                               *)
(***************************************************************************)
Src(node) == libTrees[NodeTree(node)].src
NamedTokens(s) == {j \in 1..Len(s) : s[j] = "x"}
Least(S) == CHOOSE j \in S : \A m \in S : j <= m
Greatest(S) == CHOOSE j \in S : \A m \in S : m <= j

\* node j of the tree of `node`, or the null node when there is none (j < 0)
Related(node, j) == IF j < 0 THEN NullNode ELSE MkNode(NodeTree(node), j)

\* index is a uint32_t: it is below the child count only if its high limb is 0
ts_node_child(node, index) ==
  Related(node, IF NodeIndex(node) = 0 /\ index[1] = 0 /\ index[2] < Len(Src(node))
                  THEN index[2] + 1 ELSE -1)

ts_node_named_child(node, index) ==
  LET named == NamedTokens(Src(node))
      at == {j \in named : Cardinality({m \in named : m < j}) = index[2]}
  IN  Related(node, IF NodeIndex(node) = 0 /\ index[1] = 0 /\ at # {} THEN Least(at) ELSE -1)

ts_node_child_by_field_name(node, name) ==
  Related(node, IF NodeIndex(node) = 0 /\ name = "head" /\ 1 \in NamedTokens(Src(node))
                  THEN 1 ELSE -1)

ts_node_parent(node) == Related(node, IF NodeIndex(node) = 0 THEN -1 ELSE 0)

ts_node_next_sibling(node) ==
  LET i == NodeIndex(node)
  IN  Related(node, IF i >= 1 /\ i < Len(Src(node)) THEN i + 1 ELSE -1)

ts_node_prev_sibling(node) ==
  LET i == NodeIndex(node)
  IN  Related(node, IF i >= 2 THEN i - 1 ELSE -1)

ts_node_next_named_sibling(node) ==
  LET i == NodeIndex(node)
      after == {j \in NamedTokens(Src(node)) : j > i}
  IN  Related(node, IF i >= 1 /\ after # {} THEN Least(after) ELSE -1)

ts_node_prev_named_sibling(node) ==
  LET i == NodeIndex(node)
      before == {j \in NamedTokens(Src(node)) : j < i}
  IN  Related(node, IF i >= 1 /\ before # {} THEN Greatest(before) ELSE -1)

\* TSPoint values, rows and columns uint32_t
PointLeq(p, q) ==
  \/ p.row[1] < q.row[1]
  \/ p.row[1] = q.row[1] /\ p.row[2] < q.row[2]
  \/ p.row = q.row /\ p.column[1] < q.column[1]
  \/ p.row = q.row /\ p.column[1] = q.column[1] /\ p.column[2] <= q.column[2]

TokenStart(j) == [row |-> Word32(0), column |-> Word32(j - 1)]
TokenEnd(j) == [row |-> Word32(0), column |-> Word32(j)]
Spans(j, start, end) == PointLeq(TokenStart(j), start) /\ PointLeq(end, TokenEnd(j))

\* the smallest node under `node` that spans the range; `node` itself when none does
ts_node_descendant_for_point_range(node, start, end) ==
  LET in == {j \in 1..Len(Src(node)) : Spans(j, start, end)}
  IN  Related(node, IF NodeIndex(node) = 0 /\ in # {} THEN Least(in) ELSE NodeIndex(node))

ts_node_named_descendant_for_point_range(node, start, end) ==
  LET in == {j \in NamedTokens(Src(node)) : Spans(j, start, end)}
  IN  Related(node, IF NodeIndex(node) = 0 /\ in # {} THEN Least(in) ELSE NodeIndex(node))

\* point_val: the two OCaml ints of a point, read into uint32_t
point_val(v) == [row |-> ToUint32(v.row), column |-> ToUint32(v.column)]

\* what the OCaml program passes for an index, a field name and a point
Indices == -1..MaxNavLen
FieldNames == {"head", "tail"}
Points == [row : {0}, column : 0..MaxNavLen] \cup {[row |-> 1, column |-> 0]}
\* a range starts at a point and is empty or one column wide
Ranges == {r \in [start : Points, end : Points] :
             /\ r.end.row = r.start.row
             /\ r.end.column \in {r.start.column, r.start.column + 1}}

(***************************************************************************)
(* Node stubs.                                                             *)
(***************************************************************************)
\* NavReturn with the test ts_node_is_null left out: whatever the library gave
\* is wrapped in Some
NavReturn_NoNullCheck(op, index, node, result) ==
  ret' = [Ret(op, 0, "some", 0, alloc_node(result), "")
            EXCEPT !.index = index, !.argNode = node, !.libNode = result]

\* the end of every navigation stub: None for the null node, else Some node
NavReturn(op, index, node, result) ==
  ret' = [(IF ts_node_is_null(result)
             THEN Ret(op, 0, "none", 0, NoNode, "")
             ELSE Ret(op, 0, "some", 0, alloc_node(result), ""))
            EXCEPT !.index = index, !.argNode = node, !.libNode = result]

\* A navigation stub on the TSNode it read with node_val, given what the library
\* call on it yields on a live tree.  On a node of a freed tree the library
\* reads freed memory: the process may die, or the call may give the null node
\* or a stale one.
NavStub(op, index, node, result) ==
  /\ IF NodeTree(node) \in 1..Len(libTrees) /\ libTrees[NodeTree(node)].live
       THEN /\ NavReturn(op, index, node, result)
            /\ UNCHANGED <<ubEvents, crashed>>
       ELSE \E outcome \in {"dies", "null", "stale"} :
            /\ ubEvents' = ubEvents \cup {"ts_node call on a freed tree"}
            /\ crashed' = (outcome = "dies")
            /\ IF outcome = "dies"
                 THEN ret' = [Ret(op, 0, "crash", 0, NoNode, "")
                                EXCEPT !.index = index, !.argNode = node]
                 ELSE NavReturn(op, index, node, IF outcome = "null" THEN NullNode ELSE node)
  /\ UNCHANGED <<abiOk, parsers, libParsers, trees, libTrees, deleteCalls, nodes>>

caml_ts_node_child ==
  /\ ~crashed
  /\ \E v_node \in nodes : \E v_index \in Indices :
       LET node == node_val(v_node)
           index == ToUint32(v_index)
       IN  NavStub("node_child", v_index, node, ts_node_child(node, index))

caml_ts_node_named_child ==
  /\ ~crashed
  /\ \E v_node \in nodes : \E v_index \in Indices :
       LET node == node_val(v_node)
           index == ToUint32(v_index)
       IN  NavStub("node_named_child", v_index, node, ts_node_named_child(node, index))

caml_ts_node_child_by_field_name ==
  /\ ~crashed
  /\ \E v_node \in nodes : \E v_field_name \in FieldNames :
       LET node == node_val(v_node)
       IN  NavStub("node_child_by_field_name", 0, node,
                   ts_node_child_by_field_name(node, v_field_name))

caml_ts_node_parent ==
  /\ ~crashed
  /\ \E v_node \in nodes :
       LET node == node_val(v_node)
       IN  NavStub("node_parent", 0, node, ts_node_parent(node))

caml_ts_node_next_sibling ==
  /\ ~crashed
  /\ \E v_node \in nodes :
       LET node == node_val(v_node)
       IN  NavStub("node_next_sibling", 0, node, ts_node_next_sibling(node))

caml_ts_node_prev_sibling ==
  /\ ~crashed
  /\ \E v_node \in nodes :
       LET node == node_val(v_node)
       IN  NavStub("node_prev_sibling", 0, node, ts_node_prev_sibling(node))

caml_ts_node_next_named_sibling ==
  /\ ~crashed
  /\ \E v_node \in nodes :
       LET node == node_val(v_node)
       IN  NavStub("node_next_named_sibling", 0, node, ts_node_next_named_sibling(node))

caml_ts_node_prev_named_sibling ==
  /\ ~crashed
  /\ \E v_node \in nodes :
       LET node == node_val(v_node)
       IN  NavStub("node_prev_named_sibling", 0, node, ts_node_prev_named_sibling(node))

caml_ts_node_descendant_for_point_range ==
  /\ ~crashed
  /\ \E v_node \in nodes : \E r \in Ranges :
       LET node == node_val(v_node)
           start == point_val(r.start)
           end == point_val(r.end)
       IN  NavStub("node_descendant_for_point_range", 0, node,
                   ts_node_descendant_for_point_range(node, start, end))

caml_ts_node_named_descendant_for_point_range ==
  /\ ~crashed
  /\ \E v_node \in nodes : \E r \in Ranges :
       LET node == node_val(v_node)
           start == point_val(r.start)
           end == point_val(r.end)
       IN  NavStub("node_named_descendant_for_point_range", 0, node,
                   ts_node_named_descendant_for_point_range(node, start, end))

(***************************************************************************)
(* caml_ts_node_text.                                                      *)
(***************************************************************************)
\* the byte span of a node: its start is the first context word; the root spans
\* the whole source its tree was parsed from, a token one byte
ts_node_start_byte(node) == node.context[1]
ts_node_end_byte(node) ==
  Add32(ts_node_start_byte(node),
        Word32(IF NodeIndex(node) = 0 THEN Len(Src(node)) ELSE 1))

\* what a byte read outside the source string may hold
StrayBytes == {"x", "NUL"}

\* length = end - start; caml_alloc_string(length); memcpy(result, source + start,
\* length).  Nothing compares start or end with the length of source: a byte
\* read at an offset that is not below it is a read outside the string, which
\* may kill the process or give any byte.  A length that wrapped around is
\* larger than any memory the process has: the allocation or the copy fails.
NodeTextCopy(node, source, start, end, ub) ==
  LET length == Sub32(end, start)
      s == start[2]
      n == length[2]
      past == {k \in 1..n : s + k > Len(source)}
      died == [Ret("node_text", 0, "crash", 0, NoNode, "")
                 EXCEPT !.argNode = node, !.source = source]
  IN  IF length[1] # 0 \/ start[1] # 0
        THEN /\ ret' = died
             /\ ubEvents' = ubEvents \cup ub \cup {"memcpy of a wrapped length"}
             /\ crashed' = TRUE
        ELSE IF past = {}
          THEN /\ ret' = [Ret("node_text", 0, "string", 0, NoNode, "")
                            EXCEPT !.argNode = node, !.source = source,
                                   !.text = SubSeq(source, s + 1, s + n)]
               /\ ubEvents' = ubEvents \cup ub
               /\ crashed' = FALSE
          ELSE /\ ubEvents' = ubEvents \cup ub \cup {"memcpy read past the end of source"}
               /\ \/ /\ ret' = died
                     /\ crashed' = TRUE
                  \/ /\ \E stray \in [past -> StrayBytes] :
                          ret' = [Ret("node_text", 0, "string", 0, NoNode, "")
                                    EXCEPT !.argNode = node, !.source = source,
                                           !.text = [k \in 1..n |->
                                                       IF k \in past THEN stray[k]
                                                                     ELSE source[s + k]]]
                     /\ crashed' = FALSE

\* On a node of a freed tree ts_node_end_byte reads freed memory: the process
\* may die, or the call may give any value.
caml_ts_node_text ==
  /\ ~crashed
  /\ \E v_node \in nodes : \E v_source \in NavSources :
       LET node == node_val(v_node)
           source == v_source
           start == ts_node_start_byte(node)
       IN  IF NodeTree(node) \in 1..Len(libTrees) /\ libTrees[NodeTree(node)].live
             THEN NodeTextCopy(node, source, start, ts_node_end_byte(node), {})
             ELSE \/ /\ ret' = [Ret("node_text", 0, "crash", 0, NoNode, "")
                                  EXCEPT !.argNode = node, !.source = source]
                     /\ ubEvents' = ubEvents \cup {"ts_node call on a freed tree"}
                     /\ crashed' = TRUE
                  \/ \E e \in 0..MaxNavLen :
                       NodeTextCopy(node, source, start, Word32(e),
                                    {"ts_node call on a freed tree"})
  /\ UNCHANGED <<abiOk, parsers, libParsers, trees, libTrees, deleteCalls, nodes>>

\* the OCaml program keeps the node it was just given, or lets go of one it held
HoldNode ==
  /\ ~crashed
  /\ ret.node # NoNode
  /\ ret.node \notin nodes
  /\ Cardinality(nodes) < MaxNodes
  /\ nodes' = nodes \cup {ret.node}
  /\ UNCHANGED <<abiOk, parsers, libParsers, trees, libTrees, deleteCalls, ubEvents, crashed, ret>>

DropNode ==
  /\ ~crashed
  /\ \E v \in nodes : nodes' = nodes \ {v}
  /\ UNCHANGED <<abiOk, parsers, libParsers, trees, libTrees, deleteCalls, ubEvents, crashed, ret>>

Next ==
  \/ caml_ts_parser_new
  \/ caml_ts_parser_delete
  \/ parser_finalize
  \/ caml_ts_parser_set_language
  \/ caml_ts_parser_parse_string
  \/ caml_ts_parser_parse_string_with_tree
  \/ caml_ts_tree_root_node
  \/ caml_ts_tree_delete
  \/ tree_finalize
  \/ caml_ts_tree_copy

Spec == Init /\ [][Next]_vars

(***************************************************************************)
(* Navigation: the program has a parser with a language and has parsed one *)
(* source; it takes nodes from the tree, walks from them, and releases the *)
(* tree while it still holds nodes.                                        *)
(***************************************************************************)
NavInit ==
  /\ abiOk = TRUE
  /\ libParsers = <<[live |-> TRUE, language |-> TRUE]>>
  /\ parsers = <<[ptr |-> ParserPtr(1), orig |-> ParserPtr(1), finalized |-> FALSE]>>
  /\ \E src \in NavSources : libTrees = <<[live |-> TRUE, src |-> src]>>
  /\ trees = <<[ptr |-> TreePtr(1), orig |-> TreePtr(1), finalized |-> FALSE]>>
  /\ deleteCalls = EmptyBag
  /\ nodes = {}
  /\ ubEvents = {}
  /\ crashed = FALSE
  /\ ret = Ret("parser_parse_string", 1, "some", 1, NoNode, "")

NavNext ==
  \/ caml_ts_tree_root_node
  \/ caml_ts_tree_delete
  \/ tree_finalize
  \/ HoldNode
  \/ DropNode
  \/ caml_ts_node_child
  \/ caml_ts_node_named_child
  \/ caml_ts_node_child_by_field_name
  \/ caml_ts_node_parent
  \/ caml_ts_node_next_sibling
  \/ caml_ts_node_prev_sibling
  \/ caml_ts_node_next_named_sibling
  \/ caml_ts_node_prev_named_sibling
  \/ caml_ts_node_descendant_for_point_range
  \/ caml_ts_node_named_descendant_for_point_range
  \/ caml_ts_node_text

SpecNav == NavInit /\ [][NavNext]_vars

(***************************************************************************)
(* Marshalling: a TSNode, with any words in it, is written to an OCaml     *)
(* block by alloc_node and read back by node_val.                          *)
(***************************************************************************)
Words32 ==
  {<<0, 0>>, <<0, 1>>, <<SignBit - 1, LimbBase - 1>>, <<SignBit, 0>>, <<LimbBase - 1, LimbBase - 1>>}
Words64 ==
  {NullWord, <<0, 0, 0, 1>>, <<SignBit - 1, LimbBase - 1, LimbBase - 1, LimbBase - 1>>,
   <<SignBit, 0, 0, 0>>, <<LimbBase - 1, LimbBase - 1, LimbBase - 1, LimbBase - 1>>}
TSNodes ==
  {[context |-> <<c1, c2, c3, c4>>, id |-> id, tree |-> tree] :
     c1 \in Words32, c2 \in Words32, c3 \in {<<0, 0>>, <<SignBit, 1>>},
     c4 \in {<<0, 1>>, <<LimbBase - 1, 0>>}, id \in Words64, tree \in Words64}

NodeInit ==
  /\ abiOk = TRUE
  /\ parsers = <<>>
  /\ libParsers = <<>>
  /\ trees = <<>>
  /\ libTrees = <<>>
  /\ deleteCalls = EmptyBag
  /\ nodes = {}
  /\ ubEvents = {}
  /\ crashed = FALSE
  /\ \E node \in TSNodes : ret = [Ret("library", 0, "node", 0, NoNode, "") EXCEPT !.libNode = node]

\* alloc_node on the TSNode the library gave; the program holds the block
AllocNode ==
  /\ ret.op = "library"
  /\ ret' = [ret EXCEPT !.op = "alloc_node", !.node = alloc_node(ret.libNode)]
  /\ nodes' = {alloc_node(ret.libNode)}
  /\ UNCHANGED <<abiOk, parsers, libParsers, trees, libTrees, deleteCalls, ubEvents, crashed>>

\* node_val on the block, in the next stub the program calls with it
NodeVal ==
  /\ ret.op = "alloc_node"
  /\ \E v \in nodes : ret' = [ret EXCEPT !.op = "node_val", !.argNode = node_val(v)]
  /\ UNCHANGED <<abiOk, parsers, libParsers, trees, libTrees, deleteCalls, nodes, ubEvents, crashed>>

NodeNext == AllocNode \/ NodeVal

SpecNode == NodeInit /\ [][NodeNext]_vars

(***************************************************************************)
(* Properties of the handle life cycle.                                    *)
(***************************************************************************)
ParseOps == {"parser_parse_string", "parser_parse_string_with_tree"}
Deletes(fn, arg) == CopiesIn([fn |-> fn, arg |-> arg], deleteCalls)
TreeObjects == 1..Len(libTrees)
HasLanguage(h) == libParsers[Parser_val(h).n].language

\* C1, as claimed: a parse on a parser that was never deleted returns Some tree,
\* whatever set_language calls the parser has seen and whatever the source.
C1_ParseAlwaysSome ==
  (ret.op \in ParseOps /\ ret.res # "crash") => ret.res = "some"

\* C1, amended: a parse on a parser that was never deleted returns Some tree
\* exactly when the parser has a language (a set_language on it succeeded), and
\* None when it has none (never set, or the set failed); the tree returned is a
\* fresh handle on a live, non-NULL tree of the given source, the empty one
\* included.
C1_ParseSomeIffLanguage ==
  (ret.op \in ParseOps /\ Parser_val(ret.arg) # NULL) =>
    /\ ret.res \in {"some", "none"}
    /\ ret.res = "some" <=> HasLanguage(ret.arg)
    /\ HasLanguage(ret.arg) => abiOk
    /\ ret.res = "some" =>
         /\ ret.h = Len(trees)
         /\ Tree_val(ret.h) # NULL
         /\ libTrees[Tree_val(ret.h).n].live

C1_Witness ==
  /\ ret.op = "parser_parse_string_with_tree"
  /\ ret.res = "some"
  /\ libTrees[Tree_val(ret.h).n].src = <<>>

\* C2: a set_language that the library refused (the parser is left without a
\* language) is reported to the caller as a failure, not as unit.
C2_SetLanguageFailureDelivered ==
  (ret.op = "parser_set_language" /\ Parser_val(ret.arg) # NULL /\ ~HasLanguage(ret.arg))
    => ret.res = "failure"

\* C3: ts_tree_delete is called at most once on the tree a handle was allocated
\* with, never while the block still holds the pointer, exactly once by the time
\* the handle has been finalized, and the tree is freed exactly when it was.
C3_TreeDeletedOnce ==
  \A h \in 1..Len(trees) :
    LET tree == trees[h].orig
        n == Deletes("ts_tree_delete", tree)
    IN  tree # NULL =>
          /\ n <= 1
          /\ trees[h].ptr \in {tree, NULL}
          /\ trees[h].ptr = tree <=> n = 0
          /\ trees[h].finalized => n = 1
          /\ libTrees[tree.n].live <=> n = 0

C3_Witness ==
  /\ ret.op = "tree_finalize"
  /\ trees[ret.arg].finalized
  /\ Deletes("ts_tree_delete", trees[ret.arg].orig) = 1
  /\ \E h \in TreeHandles : h # ret.arg /\ Tree_val(h) = NULL /\ trees[h].orig # NULL

\* what C4 says of a parse_string_with_tree step called with Some old_tree
C4_Frame(mustReturn) ==
  (ret'.op = "parser_parse_string_with_tree" /\ ret'.old # 0 /\ ret'.res # "crash") =>
    /\ mustReturn => ret'.res = "some"
    /\ \A h \in 1..Len(trees) : trees'[h] = trees[h]
    /\ \A a \in TreeObjects : libTrees'[a] = libTrees[a]
    /\ ret'.res = "some" =>
         /\ ret'.h = Len(trees) + 1
         /\ ret'.h # ret'.old
         /\ trees'[ret'.h].ptr \notin {trees'[h].orig : h \in 1..Len(trees)} \cup {NULL}

\* C4, as claimed: an incremental parse with Some old_tree returns a new,
\* distinct tree handle and leaves every existing handle and tree as it was.
C4_IncrementalReturnsNewTree == [][C4_Frame(TRUE)]_vars

\* C4, amended: an incremental parse with Some old_tree leaves the old handle's
\* pointer and the old tree's liveness and contents (and every other handle and
\* tree) as they were, whether it returns Some or None; when it returns Some,
\* the handle is new, distinct from the old one, and wraps a tree no handle had.
C4_IncrementalLeavesOldTree == [][C4_Frame(FALSE)]_vars

C4_Witness ==
  /\ ret.op = "parser_parse_string_with_tree"
  /\ ret.old # 0
  /\ ret.res = "some"
  /\ Tree_val(ret.old) # NULL
  /\ libTrees[Tree_val(ret.old).n].live
  /\ libTrees[Tree_val(ret.old).n].src # libTrees[Tree_val(ret.h).n].src

\* C7: root_node on a released handle fails with "tree_root_node: NULL tree",
\* makes no library call on NULL and changes nothing; a later delete or
\* finalization of a released handle frees nothing and leaves the pointer NULL.
C7_Step ==
  /\ (ret'.op = "tree_root_node" /\ Tree_val(ret'.arg) = NULL) =>
       /\ ret'.res = "failure"
       /\ ret'.msg = "tree_root_node: NULL tree"
       /\ UNCHANGED <<abiOk, parsers, libParsers, trees, libTrees, deleteCalls, nodes,
                      ubEvents, crashed>>
  /\ (ret'.op \in {"tree_delete", "tree_finalize"} /\ Tree_val(ret'.arg) = NULL) =>
       /\ ret'.res = "unit"
       /\ trees'[ret'.arg].ptr = NULL
       /\ UNCHANGED <<libTrees, deleteCalls, ubEvents, crashed>>

C7_RootNodeOfReleasedTreeFails == [][C7_Step]_vars

C7_Witness ==
  /\ ret.op = "tree_root_node"
  /\ ret.res = "failure"
  /\ Tree_val(ret.arg) = NULL
  /\ Deletes("ts_tree_delete", trees[ret.arg].orig) = 1

\* C8: ts_parser_delete is called only with the pointer ts_parser_new returned
\* for some handle, at most once for each, and exactly once by the time the
\* handle has been finalized.
C8_ParserReleasedOnce ==
  /\ \A c \in BagToSet(deleteCalls) :
       c.fn = "ts_parser_delete" => \E h \in 1..Len(parsers) : c.arg = parsers[h].orig
  /\ \A h \in 1..Len(parsers) :
       /\ Deletes("ts_parser_delete", parsers[h].orig) <= 1
       /\ parsers[h].finalized => Deletes("ts_parser_delete", parsers[h].orig) = 1

\* C9: no stub hands a released (NULL) tree to a library call that dereferences
\* it, and no handle is ever made around a NULL tree.
C9_ReleasedHandleSafe ==
  /\ ubEvents \cap {"ts_tree_copy(NULL)", "ts_tree_root_node(NULL)", "ts_tree_delete(NULL)"} = {}
  /\ \A h \in 1..Len(trees) : trees[h].orig # NULL

(***************************************************************************)
(* Properties of nodes.                                                    *)
(***************************************************************************)
NavOps ==
  {"node_child", "node_named_child", "node_child_by_field_name", "node_parent",
   "node_next_sibling", "node_prev_sibling", "node_next_named_sibling",
   "node_prev_named_sibling", "node_descendant_for_point_range",
   "node_named_descendant_for_point_range"}

OfLiveTree(node) ==
  NodeTree(node) \in TreeObjects /\ libTrees[NodeTree(node)].live

\* C5: a navigation stub returns None exactly when the library gave the null
\* node, and Some of that very node otherwise, never Some of a null node; on a
\* live tree it is None for the parent of the root, the next sibling of the
\* last child, the previous sibling of the first and a child index outside
\* 0 .. child_count - 1, and Some for the others.
C5_NavigationIsOptional ==
  (ret.op \in NavOps /\ ret.res # "crash") =>
    /\ ret.res \in {"none", "some"}
    /\ ret.res = "none" <=> ts_node_is_null(ret.libNode)
    /\ ret.res = "none" => ret.node = NoNode
    /\ ret.res = "some" =>
         /\ node_val(ret.node) = ret.libNode
         /\ ~ts_node_is_null(node_val(ret.node))
    /\ OfLiveTree(ret.argNode) =>
         LET i == NodeIndex(ret.argNode)
             n == Len(libTrees[NodeTree(ret.argNode)].src)
         IN  /\ ret.op = "node_parent" => (ret.res = "none" <=> i = 0)
             /\ ret.op = "node_next_sibling" => (ret.res = "none" <=> (i = 0 \/ i = n))
             /\ ret.op = "node_prev_sibling" => (ret.res = "none" <=> i <= 1)
             /\ ret.op = "node_child" =>
                  (ret.res = "none" <=> ~(i = 0 /\ ret.index >= 0 /\ ret.index < n))

C5_Witness ==
  /\ ret.op = "node_next_sibling"
  /\ ret.res = "none"
  /\ OfLiveTree(ret.argNode)
  /\ NodeIndex(ret.argNode) = Len(libTrees[NodeTree(ret.argNode)].src)
  /\ NodeIndex(ret.argNode) >= 2

\* C6: a tree is live exactly while the block of some tree handle still holds
\* its pointer, whatever nodes of it the program holds; a node is the six words
\* of its TSNode, the same whether its tree is live or freed; and a navigation
\* call on a node of a freed tree is a call outside the library's contract.
C6_NodesDoNotOwnTree ==
  /\ \A a \in TreeObjects :
       libTrees[a].live <=> \E h \in 1..Len(trees) : trees[h].ptr = TreePtr(a)
  /\ \A v \in nodes :
       /\ Len(v) = 6
       /\ \E a \in TreeObjects : \E i \in 0..MaxNavLen : v = alloc_node(MkNode(a, i))
  /\ (ret.op \in NavOps /\ ~OfLiveTree(ret.argNode)) =>
       "ts_node call on a freed tree" \in ubEvents

C6_Witness ==
  /\ \E v \in nodes :
       /\ ~OfLiveTree(node_val(v))
       /\ Deletes("ts_tree_delete", TreePtr(NodeTree(node_val(v)))) = 1
  /\ ret.op = "tree_delete"

\* C10: node_val(alloc_node(n)) = n in all six components; a context word with
\* its top bit set is stored as a negative int32 and read back unchanged.
C10_NodeRoundTrip ==
  ret.op = "node_val" =>
    /\ ret.argNode = ret.libNode
    /\ \A k \in 1..4 :
         /\ ret.libNode.context[k][1] >= SignBit <=> ret.node[k] < 0
         /\ ret.libNode.context[k][1] < SignBit =>
              ret.node[k] = ret.libNode.context[k][1] * LimbBase + ret.libNode.context[k][2]

C10_Witness ==
  /\ ret.op = "node_val"
  /\ ret.libNode.context[1] = <<LimbBase - 1, LimbBase - 1>>
  /\ ret.node[1] = -1
  /\ ret.libNode.context[2] = <<SignBit, 0>>
  /\ ret.node[2] < 0
  /\ ret.libNode.tree[1] >= SignBit
  /\ ret.argNode = ret.libNode

(***************************************************************************)
(* Properties of node_text.                                                *)
(***************************************************************************)
\* C11: for a node of a live tree and any source string, caml_ts_node_text
\* returns the string of length end_byte - start_byte whose bytes are
\* source[start_byte .. end_byte), and reads no offset that is not below the
\* length of the source string it was given.
C11_NodeTextWithinSource ==
  (ret.op = "node_text" /\ OfLiveTree(ret.argNode)) =>
    LET start == ts_node_start_byte(ret.argNode)[2]
        end == ts_node_end_byte(ret.argNode)[2]
    IN  /\ ret.res = "string"
        /\ Len(ret.text) = end - start
        /\ end <= Len(ret.source)
        /\ \A k \in 1..(end - start) : ret.text[k] = ret.source[start + k]
        /\ "memcpy read past the end of source" \notin ubEvents

====
